---------------------------- MODULE Spec2Model ----------------------------
(***************************************************************************)
(* Model of the rule-based safe-correction pipeline of src/app.py:         *)
(* tokenize_with_positions, is_probable_proper_noun, safe_spell_correct,   *)
(* basic_grammar_checks, merge_issues and recommendations_from_issues.     *)
(*                                                                         *)
(* A text is a sequence of characters; a character is a one-character      *)
(* string, except the two non-ASCII letters, which are written "U00E9"     *)
(* (e acute) and "U00C9" (E acute).  Offsets are Python's: 0-based,        *)
(* half-open [start, end), so text[s:e] is SubSeq(text, s + 1, e).         *)
(***************************************************************************)
EXTENDS Integers, Sequences, FiniteSets, TLC

VARIABLES
  text,            \* the input of the evaluation (text / transcript)
  unknown,         \* the spelling dictionary: lower-cased words it does not know
  correction,      \* the spelling dictionary: unknown word -> suggestion or None
  pc,              \* position in the evaluation pipeline
  tokens,          \* safe_spell_correct: tokens of the input
  replacements,    \* safe_spell_correct: recorded (start, end, suggestion)
  corrected_spell, \* result of safe_spell_correct: corrected text
  spell_issues,    \* result of safe_spell_correct: issues
  grammar_issues,  \* result of basic_grammar_checks
  issues,          \* result of merge_issues
  recs,            \* result of recommendations_from_issues
  err,             \* "none", or the exception that ended the evaluation
  variant,         \* the script that runs: "app" (app.py) or "app2" (app2.py)
  mode,            \* "writing" or "speaking" evaluation
  duration,        \* speaking: info.duration, <<>> (unknown) or <<seconds>>
  word_count,      \* speaking: the word count of the transcript
  wpm              \* speaking: words per minute, <<>> (None) or <<num, den>>

vars == <<text, unknown, correction, pc, tokens, replacements, corrected_spell,
          spell_issues, grammar_issues, issues, recs, err,
          variant, mode, duration, word_count, wpm>>

---------------------------------------------------------------------------
(* Characters and Python's str predicates on them.                         *)

LowerSeq == <<"a","b","c","d","e","f","g","h","i","j","k","l","m",
              "n","o","p","q","r","s","t","u","v","w","x","y","z">>
UpperSeq == <<"A","B","C","D","E","F","G","H","I","J","K","L","M",
              "N","O","P","Q","R","S","T","U","V","W","X","Y","Z">>

AsciiLower == {LowerSeq[i] : i \in 1..26}
AsciiUpper == {UpperSeq[i] : i \in 1..26}
Digits     == {"0","1","2","3","4","5","6","7","8","9"}
\* str.islower() / str.isupper() of one character
LowerChars == AsciiLower \cup {"U00E9"}
UpperChars == AsciiUpper \cup {"U00C9"}
\* the regex classes \s and \w (str patterns: Unicode letters, digits, "_")
SpaceChars == {" ", "\t", "\n"}
WordChars  == LowerChars \cup UpperChars \cup Digits \cup {"_"}
\* the class [A-Za-z']
AlphaChars == AsciiLower \cup AsciiUpper \cup {"'"}

\* str.lower() / str.upper() of one character
LowerChar(c) ==
  IF c \in AsciiUpper THEN LowerSeq[CHOOSE i \in 1..26 : UpperSeq[i] = c]
  ELSE IF c = "U00C9" THEN "U00E9"
  ELSE c

UpperChar(c) ==
  IF c \in AsciiLower THEN UpperSeq[CHOOSE i \in 1..26 : LowerSeq[i] = c]
  ELSE IF c = "U00E9" THEN "U00C9"
  ELSE c

Lower(s) == [i \in 1..Len(s) |-> LowerChar(s[i])]

\* Python's s[a:b] for 0 <= a, b (indices beyond the end are clamped)
Slice(s, a, b) ==
  LET hi == IF b < Len(s) THEN b ELSE Len(s)
  IN  IF a >= hi THEN <<>> ELSE SubSeq(s, a + 1, hi)

\* Python's s[-n:] and s[:n]
LastChars(s, n)  == IF Len(s) <= n THEN s ELSE SubSeq(s, Len(s) - n + 1, Len(s))
FirstChars(s, n) == Slice(s, 0, n)

---------------------------------------------------------------------------
(* tokenize_with_positions: re.finditer(r"[A-Za-z']+|[0-9]+|[^\w\s]", text) *)

\* end offset of the greedy run of characters of class C that starts at i
RECURSIVE RunEnd(_, _, _)
RunEnd(s, i, C) ==
  IF i < Len(s) /\ s[i + 1] \in C THEN RunEnd(s, i + 1, C) ELSE i

\* the scan from offset i: at each position the three alternatives are tried
\* in order; a position where none matches is passed over
RECURSIVE ScanFrom(_, _)
ScanFrom(s, i) ==
  IF i >= Len(s) THEN <<>>
  ELSE LET c == s[i + 1] IN
    IF c \in AlphaChars
      THEN LET e == RunEnd(s, i, AlphaChars)
           IN  <<<<Slice(s, i, e), i, e>>>> \o ScanFrom(s, e)
    ELSE IF c \in Digits
      THEN LET e == RunEnd(s, i, Digits)
           IN  <<<<Slice(s, i, e), i, e>>>> \o ScanFrom(s, e)
    ELSE IF c \notin WordChars /\ c \notin SpaceChars
      THEN <<<<Slice(s, i, i + 1), i, i + 1>>>> \o ScanFrom(s, i + 1)
    ELSE ScanFrom(s, i + 1)

\* a tokenizer that records 1-based offsets
tokenize_one_based(s) ==
  LET toks == ScanFrom(s, 0)
  IN  [i \in 1..Len(toks) |-> <<toks[i][1], toks[i][2] + 1, toks[i][3] + 1>>]

tokenize_with_positions(s) == ScanFrom(s, 0)

\* re.fullmatch(r"[A-Za-z']+", tok)
IsWordToken(tok) == Len(tok) > 0 /\ \A i \in 1..Len(tok) : tok[i] \in AlphaChars

---------------------------------------------------------------------------
(* is_probable_proper_noun                                                 *)

\* str.isupper(): no lower-case character and at least one upper-case one
IsUpperStr(w) ==
  /\ \A i \in 1..Len(w) : w[i] \notin LowerChars
  /\ \E i \in 1..Len(w) : w[i] \in UpperChars

MaxAcronymLen == 6

\* the heuristic without its second rule (the capitalised first character)
proper_noun_without_capital_rule(word, original_text) ==
  \/ IsUpperStr(word) /\ Len(word) <= MaxAcronymLen
  \/ \E i \in 1..Len(word) : word[i] = "@"

is_probable_proper_noun(word, original_text) ==
  \/ IsUpperStr(word) /\ Len(word) <= MaxAcronymLen
  \/ IsUpperStr(FirstChars(word, 1))
  \/ \E i \in 1..Len(word) : word[i] = "@"

---------------------------------------------------------------------------
(* The spelling dictionary (spellchecker.SpellChecker), a black box:       *)
(* unknown(words) is the subset of the words the dictionary does not know, *)
(* correction(word) is a suggestion or None.                               *)

\* None; line 118 tests "suggestion and ...", which treats None and the
\* empty string alike, so both are the empty sequence here
None == <<>>

spell_unknown(words) == {w \in words : w \in unknown}

spell_correction(low) == IF low \in DOMAIN correction THEN correction[low] ELSE None

---------------------------------------------------------------------------
(* safe_spell_correct                                                      *)

SeqToSet(s) == {s[i] : i \in 1..Len(s)}

\* line 113: the short-word guard
ShortWordLen == 2

\* the guard written with < for <=
IsShortWordStrict(tok) == Len(tok) < ShortWordLen

IsShortWord(tok) == Len(tok) <= ShortWordLen

\* line 118: only accept a suggestion that exists and differs
AcceptSuggestion(suggestion, low) == suggestion # None /\ suggestion # low

\* lines 104-119: does the loop body reach the append for token tok
IsReplaced(tok, misspelled, original_text) ==
  /\ IsWordToken(tok)
  /\ Lower(tok) \in misspelled
  /\ ~is_probable_proper_noun(tok, original_text)
  /\ ~IsShortWord(tok)
  /\ AcceptSuggestion(spell_correction(Lower(tok)), Lower(tok))

\* lines 96-97: misspelled = spell.unknown([w.lower() for w in words])
Misspelled(toks) ==
  spell_unknown({Lower(toks[i][1]) : i \in {j \in 1..Len(toks) : IsWordToken(toks[j][1])}})

\* the tokens the loop records a replacement and an issue for, in scan order
ReplacedTokens(toks, original_text) ==
  LET misspelled == Misspelled(toks)
      Test(t) == IsReplaced(t[1], misspelled, original_text)
  IN  SelectSeq(toks, Test)

\* line 119
CollectReplacements(toks, original_text) ==
  LET r == ReplacedTokens(toks, original_text)
  IN  [i \in 1..Len(r) |-> <<r[i][2], r[i][3], spell_correction(Lower(r[i][1]))>>]

\* lines 120-125; the message f"Possible misspelling: '{tok}' -> '{suggestion}'"
\* is kept as its three parts
SpellingIssue(tok, suggestion) ==
  [Type |-> "Spelling", Original |-> tok, Suggestion |-> suggestion,
   Message |-> <<"Possible misspelling", tok, suggestion>>]

CollectSpellIssues(toks, original_text) ==
  LET r == ReplacedTokens(toks, original_text)
  IN  [i \in 1..Len(r) |-> SpellingIssue(r[i][1], spell_correction(Lower(r[i][1])))]

\* sorted(replacements, key=lambda x: x[0], reverse=True): a stable sort by
\* descending start, as an insertion sort
RECURSIVE InsertDescending(_, _)
InsertDescending(sorted, r) ==
  IF sorted = <<>> THEN <<r>>
  ELSE IF Head(sorted)[1] >= r[1]
    THEN <<Head(sorted)>> \o InsertDescending(Tail(sorted), r)
    ELSE <<r>> \o sorted

RECURSIVE SortByStartDescending(_)
SortByStartDescending(rs) ==
  IF rs = <<>> THEN <<>>
  ELSE InsertDescending(SortByStartDescending(SubSeq(rs, 1, Len(rs) - 1)), rs[Len(rs)])

\* the replacements applied in the order they were recorded (front to back)
ApplicationOrderAsRecorded(rs) == rs

\* the order of line 128
ApplicationOrder(rs) == SortByStartDescending(rs)

\* line 129: corrected_parts[s:e] = list(rep), with Python's clamping of s, e
Splice(parts, s, e, rep) ==
  LET lo == IF s < Len(parts) THEN s ELSE Len(parts)
      h  == IF e < Len(parts) THEN e ELSE Len(parts)
      hi == IF h < lo THEN lo ELSE h
  IN  Slice(parts, 0, lo) \o rep \o Slice(parts, hi, Len(parts))

\* lines 128-129: the splices, one after the other, each on the result of the last
RECURSIVE ApplyInOrder(_, _)
ApplyInOrder(parts, rs) ==
  IF rs = <<>> THEN parts
  ELSE ApplyInOrder(Splice(parts, Head(rs)[1], Head(rs)[2], Head(rs)[3]), Tail(rs))

ApplyReplacements(original_text, rs) == ApplyInOrder(original_text, ApplicationOrder(rs))

---------------------------------------------------------------------------
(* basic_grammar_checks                                                    *)

\* str.splitlines(): the pieces between line breaks ("\n" is the one line
\* break among the characters here); a trailing empty piece is dropped
RECURSIVE SplitFrom(_, _, _)
SplitFrom(s, i, cur) ==
  IF i > Len(s) THEN (IF cur = <<>> THEN <<>> ELSE <<cur>>)
  ELSE IF s[i] = "\n" THEN <<cur>> \o SplitFrom(s, i + 1, <<>>)
  ELSE SplitFrom(s, i + 1, Append(cur, s[i]))

splitlines(s) == SplitFrom(s, 1, <<>>)

\* str.strip(): white space removed at both ends
RECURSIVE lstrip(_)
lstrip(s) == IF s # <<>> /\ Head(s) \in SpaceChars THEN lstrip(Tail(s)) ELSE s

RECURSIVE rstrip(_)
rstrip(s) ==
  IF s # <<>> /\ s[Len(s)] \in SpaceChars THEN rstrip(SubSeq(s, 1, Len(s) - 1)) ELSE s

strip(s) == rstrip(lstrip(s))

\* " ".join(lines)
RECURSIVE JoinWithSpace(_)
JoinWithSpace(ls) ==
  IF ls = <<>> THEN <<>>
  ELSE IF Len(ls) = 1 THEN ls[1]
  ELSE ls[1] \o <<" ">> \o JoinWithSpace(Tail(ls))

\* lines 141-142
Joined(s) ==
  LET ls       == splitlines(s)
      stripped == [i \in 1..Len(ls) |-> strip(ls[i])]
      NonBlank(l) == l # <<>>
  IN  JoinWithSpace(SelectSeq(stripped, NonBlank))

\* \b at offset i of s: exactly one of the characters before and after is a \w
WordBoundary(s, i) ==
  LET before == i > 0 /\ s[i] \in WordChars
      after  == i < Len(s) /\ s[i + 1] \in WordChars
  IN  before # after

\* the offsets where \b<lit>\b matches in s
MatchOffsets(lit, s) ==
  {i \in 0..(Len(s) - Len(lit)) :
     /\ Slice(s, i, i + Len(lit)) = lit
     /\ WordBoundary(s, i)
     /\ WordBoundary(s, i + Len(lit))}

\* re.search(pattern, s) is not None
Search(lit, s) == MatchOffsets(lit, s) # {}

\* re.search(pattern, s).group(0): the text of the leftmost match
Group0(lit, s) ==
  LET i == CHOOSE k \in MatchOffsets(lit, s) : \A j \in MatchOffsets(lit, s) : k <= j
  IN  Slice(s, i, i + Len(lit))

\* lines 165-171: (pattern without its \b...\b, replacement, message)
PatternTable == <<
  <<<<"o","m","a","n"," ","a","r","e">>,
    <<"O","m","a","n"," ","i","s">>,
    <<"Subject-verb agreement: 'Oman is' not 'Oman are'.">> >>,
  <<<<"t","o","d","a","y"," ","c","l","a","s","s"," ","i","s">>,
    <<"T","o","d","a","y","'","s"," ","c","l","a","s","s"," ","i","s">>,
    <<"Use possessive form: 'Today's class'.">> >>,
  <<<<"i"," ","w","n","a","t">>,
    <<"I"," ","w","a","n","t">>,
    <<"Common misspelling/phrase correction: 'I want'.">> >>,
  <<<<"e","v","r","y">>,
    <<"e","v","e","r","y">>,
    <<"Common misspelling: 'every'.">> >>,
  <<<<"c","o","n","t","r","y">>,
    <<"c","o","u","n","t","r","y">>,
    <<"Common misspelling: 'country'.">> >> >>

GrammarIssue(original, suggestion, message) ==
  [Type |-> "Grammar", Original |-> original, Suggestion |-> suggestion,
   Message |-> message]

\* lines 145 and 154: "joined and ...": the index is evaluated only when the
\* guard is true
\* the index evaluated without the guard
IndexGuardMissing(joined) == TRUE

IndexGuard(joined) == joined # <<>>

\* line 145: joined[-1] not in ".!?"
EndPunctuation == {".", "!", "?"}

\* the test without the question mark
MissingEndPunctuationNoQuestion(joined) == joined[Len(joined)] \notin {".", "!"}

MissingEndPunctuation(joined) == joined[Len(joined)] \notin EndPunctuation

\* line 154: joined[0].islower()
StartsLower(joined) == joined[1] \in LowerChars

\* lines 148 and 157
ExcerptLen == 20

\* lines 145-151
PunctuationIssues(joined) ==
  IF IndexGuard(joined) /\ MissingEndPunctuation(joined)
    THEN <<GrammarIssue(LastChars(joined, ExcerptLen), joined \o <<".">>,
                        <<"Sentence may be missing ending punctuation.">>)>>
    ELSE <<>>

\* lines 154-160
CapitalIssues(joined) ==
  IF IndexGuard(joined) /\ StartsLower(joined)
    THEN <<GrammarIssue(FirstChars(joined, ExcerptLen),
                        <<UpperChar(joined[1])>> \o Slice(joined, 1, Len(joined)),
                        <<"Start sentences with a capital letter.">>)>>
    ELSE <<>>

\* one issue for every occurrence of the pattern (re.finditer for re.search)
PatternIssuesEveryMatch(row, joined_low) ==
  [i \in 1..Cardinality(MatchOffsets(row[1], joined_low)) |->
     GrammarIssue(row[1], row[2], row[3])]

\* lines 172-178: one table row
PatternIssues(row, joined_low) ==
  IF Search(row[1], joined_low)
    THEN <<GrammarIssue(Group0(row[1], joined_low), row[2], row[3])>>
    ELSE <<>>

\* lines 165-178: the rows in table order
RECURSIVE TableIssues(_, _)
TableIssues(table, joined_low) ==
  IF table = <<>> THEN <<>>
  ELSE PatternIssues(Head(table), joined_low) \o TableIssues(Tail(table), joined_low)

\* lines 181-187
LocationIssues(joined_low) ==
  IF Search(<<"o","m","a","n">>, joined_low)
     /\ Search(<<"l","o","c","a","t","e","d"," ","i","n"," ","j","o","r","d","a","n">>, joined_low)
    THEN <<GrammarIssue(<<"l","o","c","a","t","e","d"," ","i","n"," ","j","o","r","d","a","n">>,
             <<"l","o","c","a","t","e","d"," ","i","n"," ","t","h","e"," ","M","i","d","d","l","e"," ","E","a","s","t"," ","(","o","n"," ","t","h","e"," ","A","r","a","b","i","a","n"," ","P","e","n","i","n","s","u","l","a",")",".">>,
             <<"Factual geography note: Oman is not located in Jordan.">>)>>
    ELSE <<>>

\* an index into an empty sequence raises IndexError (lines 145, 154)
RaisesIndexError(s) == IndexGuard(Joined(s)) /\ Joined(s) = <<>>

basic_grammar_checks(s) ==
  LET joined     == Joined(s)
      joined_low == Lower(joined)
  IN  PunctuationIssues(joined) \o CapitalIssues(joined)
      \o TableIssues(PatternTable, joined_low) \o LocationIssues(joined_low)

---------------------------------------------------------------------------
(* merge_issues, recommendations_from_issues                               *)

\* the two lists in the other order
merge_issues_grammar_first(s_issues, g_issues) == g_issues \o s_issues

merge_issues(s_issues, g_issues) == s_issues \o g_issues

CountType(lst, type) == Cardinality({i \in 1..Len(lst) : lst[i].Type = type})

SpellingTip == "Keep a personal list of repeated spelling mistakes and practice them daily."
GrammarTip  == "Practice short sentences first, then combine them with linking words."
RewriteTip  == "After correction, rewrite the paragraph once without looking at the suggestions."
ReadAloudTip == "Read aloud to improve sentence rhythm and confidence."

\* line 205
MaxRecs == 6

recommendations_from_issues(lst) ==
  LET spell_n == CountType(lst, "Spelling")
      gram_n  == CountType(lst, "Grammar")
      r1 == IF spell_n # 0 THEN <<SpellingTip>> ELSE <<>>
      r2 == IF gram_n # 0 THEN Append(r1, GrammarTip) ELSE r1
      r3 == Append(Append(r2, RewriteTip), ReadAloudTip)
  IN  FirstChars(r3, MaxRecs)

---------------------------------------------------------------------------
(* The evaluation (lines 281-296 for writing, 342-368 for speaking):       *)
(* safe_spell_correct on the input, basic_grammar_checks on its output,    *)
(* merge_issues, recommendations_from_issues.                              *)

\* the grammar pass given the raw input
GrammarInputRaw == text

\* line 282 (and 343): the grammar pass is given the output of the spelling pass
GrammarInput == corrected_spell

\* lines 95-133
SafeSpellCorrect ==
  /\ pc = "input"
  /\ LET toks == tokenize_with_positions(text)
         reps == CollectReplacements(toks, text)
     IN  /\ tokens' = toks
         /\ replacements' = reps
         /\ spell_issues' = CollectSpellIssues(toks, text)
         /\ corrected_spell' = ApplyReplacements(text, reps)
  /\ pc' = "spelled"
  /\ UNCHANGED <<text, unknown, correction, grammar_issues, issues, recs, err>>
  /\ UNCHANGED <<variant, mode, duration, word_count, wpm>>

\* lines 140-189, called on the output of the spelling pass
BasicGrammarChecks ==
  /\ pc = "spelled"
  /\ IF RaisesIndexError(GrammarInput)
       THEN /\ err' = "IndexError"
            /\ pc' = "failed"
            /\ UNCHANGED grammar_issues
       ELSE /\ grammar_issues' = basic_grammar_checks(GrammarInput)
            /\ pc' = "checked"
            /\ UNCHANGED err
  /\ UNCHANGED <<text, unknown, correction, tokens, replacements, corrected_spell,
                 spell_issues, issues, recs>>
  /\ UNCHANGED <<variant, mode, duration, word_count, wpm>>

\* lines 191-192
MergeIssues ==
  /\ pc = "checked"
  /\ issues' = merge_issues(spell_issues, grammar_issues)
  /\ pc' = "merged"
  /\ UNCHANGED <<text, unknown, correction, tokens, replacements, corrected_spell,
                 spell_issues, grammar_issues, recs, err>>
  /\ UNCHANGED <<variant, mode, duration, word_count, wpm>>

\* lines 194-205, called once the issues are merged (writing, line 295) and,
\* in a speaking evaluation, after the speaking metrics (line 367)
Recommendations ==
  /\ pc = (IF mode = "speaking" THEN "measured" ELSE "merged")
  /\ recs' = recommendations_from_issues(issues)
  /\ pc' = "done"
  /\ UNCHANGED <<text, unknown, correction, tokens, replacements, corrected_spell,
                 spell_issues, grammar_issues, issues, err>>
  /\ UNCHANGED <<variant, mode, duration, word_count, wpm>>

Next == SafeSpellCorrect \/ BasicGrammarChecks \/ MergeIssues \/ Recommendations

---------------------------------------------------------------------------
(* Inputs.                                                                 *)

\* the lower-cased word tokens of a text: what spell.unknown is asked about
LowWords(t) ==
  LET toks == tokenize_with_positions(t)
  IN  {Lower(toks[i][1]) : i \in {j \in 1..Len(toks) : IsWordToken(toks[j][1])}}

\* the word a dictionary suggests for a misspelt word w
Fix(w) ==
  CASE w = <<"e","v","r","y">> -> <<"e","v","e","r","y">>
    [] w = <<"c","o","n","t","r","y">> -> <<"c","o","u","n","t","r","y">>
    [] w = <<"e","d","u","c","a","t","o","n">> -> <<"e","d","u","c","a","t","i","o","n">>
    [] w = <<"w","n","a","t">> -> <<"w","a","n","t">>
    [] w = <<"h","e","l","o">> -> <<"h","e","l","l","o">>
    [] OTHER -> w \o <<"e", "d">>

\* what a dictionary may answer for a word w: 0 known; unknown with
\* 1 no suggestion, 2 the word itself, 3 a shorter word, 4 another word
Answer(w, k) ==
  CASE k = 1 -> None
    [] k = 2 -> w
    [] k = 3 -> <<"o", "k">>
    [] OTHER -> Fix(w)

\* the state before an evaluation that starts at start: input t, and a
\* dictionary that answers o[w] for each word w of cand and knows every other
\* word
InitEvaluation(t, cand, o, start) ==
  /\ text = t
  /\ unknown = {w \in cand : o[w] # 0}
  /\ correction = [w \in {v \in cand : o[v] # 0} |-> Answer(w, o[w])]
  /\ pc = start
  /\ tokens = <<>>
  /\ replacements = <<>>
  /\ corrected_spell = <<>>
  /\ spell_issues = <<>>
  /\ grammar_issues = <<>>
  /\ issues = <<>>
  /\ recs = <<>>
  /\ err = "none"

\* the state before a writing evaluation of app.py
InitWith(t, cand, o) ==
  /\ InitEvaluation(t, cand, o, "input")
  /\ variant = "app"
  /\ mode = "writing"
  /\ duration = <<>>
  /\ word_count = 0
  /\ wpm = <<>>

\* every text of at most MaxLen characters of Alphabet; the dictionary knows a
\* word or suggests a shorter or a longer word for it
MaxLen == 4

Alphabet == {"a", "A", "'", "1", "@", ".", " ", "\t", "\n", "_", "U00E9"}

CharTexts == UNION {[1..n -> Alphabet] : n \in 0..MaxLen}

Init ==
  \E t \in CharTexts :
    \E o \in [LowWords(t) -> {0, 3, 4}] : InitWith(t, LowWords(t), o)

Spec == Init /\ [][Next]_vars

\* texts of at most MaxWords pieces of WordVocab (misspelt, capitalised,
\* upper-case and short words, and what may stand between them), with every
\* dictionary answer for each of its words
MaxWords == 3

WordVocab == {
  <<"t","e","h">>,
  <<"O","m","a","n">>,
  <<"G","C","C">>,
  <<"'","A","B">>,
  <<"a","n">>,
  <<"I">>,
  <<" ">>, <<"@">> }

RECURSIVE Concat(_)
Concat(fs) == IF fs = <<>> THEN <<>> ELSE Head(fs) \o Concat(Tail(fs))

WordTexts == {Concat(fs) : fs \in UNION {[1..n -> WordVocab] : n \in 0..MaxWords}}

InitWords ==
  \E t \in WordTexts :
    \E o \in [LowWords(t) -> 0..4] : InitWith(t, LowWords(t), o)

SpecWords == InitWords /\ [][Next]_vars

\* texts of at most MaxFrags fragments of Vocab, and the example texts; the
\* dictionary may not know the non-words and suggests a shorter or a longer word
MaxFrags == 3

Vocab == {
  <<"e","v","r","y">>,
  <<"c","o","n","t","r","y">>,
  <<"e","d","u","c","a","t","o","n">>,
  <<"h","e","l","l","o">>,
  <<"E","v","r","y">>,
  <<"O","m","a","n">>,
  <<"o","m","a","n"," ","a","r","e">>,
  <<"t","o","d","a","y"," ","c","l","a","s","s"," ","i","s">>,
  <<"i"," ","w","n","a","t">>,
  <<"l","o","c","a","t","e","d"," ","i","n"," ","j","o","r","d","a","n">>,
  <<" ">>, <<"\n">>, <<".">>, <<"!">>, <<"?">>, <<"_">> }

ExampleTexts == {
  <<"e","v","r","y"," ","c","o","n","t","r","y"," ","n","e","e","d"," ","e","d","u","c","a","t","o","n">>,
  <<"o","m","a","n"," ","a","r","e"," ","a"," ","n","i","c","e"," ","p","l","a","c","e",".">>,
  <<"o","m","a","n"," ","a","r","e"," ","l","o","c","a","t","e","d"," ","i","n"," ","j","o","r","d","a","n"," ","t","o","d","a","y"," ","c","l","a","s","s"," ","i","s"," ","i"," ","w","n","a","t"," ","e","v","r","y"," ","c","o","n","t","r","y">>,
  <<"h","e","l","o","@","x",".","c","o","m">> }

NonWords == {
  <<"h","e","l","o">>,
  <<"e","v","r","y">>,
  <<"c","o","n","t","r","y">>,
  <<"e","d","u","c","a","t","o","n">>,
  <<"w","n","a","t">> }

PhraseTexts ==
  {Concat(fs) : fs \in UNION {[1..n -> Vocab] : n \in 0..MaxFrags}} \cup ExampleTexts

InitPhrases ==
  \E t \in PhraseTexts :
    \E o \in [LowWords(t) \cap NonWords -> {0, 3, 4}] :
      InitWith(t, LowWords(t) \cap NonWords, o)

SpecPhrases == InitPhrases /\ [][Next]_vars

---------------------------------------------------------------------------
(* Speaking mode: the transcript and the speaking metrics of app.py        *)
(* (lines 337-364) and of app2.py (lines 189-212).  Numbers that Python    *)
(* holds as floats are fractions <<numerator, denominator>> here; rounding *)
(* is not modelled.                                                        *)

Rat(n) == <<n, 1>>
Mul(a, b) == <<a[1] * b[1], a[2] * b[2]>>
\* a / b for a divisor b that is not zero
Div(a, b) == <<a[1] * b[2], a[2] * b[1]>>
IsZero(a) == a[1] = 0
RatEq(a, b) == a[1] * b[2] = b[1] * a[2]

\* the 1-based positions where a maximal run of characters of C starts
RunStarts(s, C) == {p \in 1..Len(s) : s[p] \in C /\ (p = 1 \/ s[p - 1] \notin C)}

\* the set of the words re.findall(r"\b\w+\b", s) returns
FindWords(s) ==
  {Slice(s, p - 1, RunEnd(s, p - 1, WordChars)) : p \in RunStarts(s, WordChars)}

\* app.py line 355: len(re.findall(r"\b\w+\b", transcript))
CountWords(s) == Cardinality(RunStarts(s, WordChars))

\* app2.py line 206: len(transcript.split())
CountSplit(s) == Cardinality(RunStarts(s, SeqToSet(s) \ SpaceChars))

\* app.py line 337 strips each segment and the joined text; app2.py line 189
\* joins the segments as they are
Transcript(v, segs) ==
  IF v = "app"
    THEN strip(JoinWithSpace([i \in 1..Len(segs) |-> strip(segs[i])]))
    ELSE JoinWithSpace(segs)

\* app.py line 357: the condition "duration and duration > 0"
DurationGuard(d) == d # None /\ d[1] # 0 /\ d[1] > 0

\* app.py lines 355-357
SpeakingMetrics ==
  /\ variant = "app" /\ mode = "speaking" /\ pc = "merged"
  /\ LET wc == CountWords(text) IN
       /\ word_count' = wc
       /\ IF DurationGuard(duration)
            THEN IF IsZero(Rat(duration[1]))
                   THEN err' = "ZeroDivisionError" /\ pc' = "failed" /\ UNCHANGED wpm
                   ELSE /\ wpm' = Mul(Div(Rat(wc), Rat(duration[1])), Rat(60))
                        /\ pc' = "measured" /\ UNCHANGED err
            ELSE wpm' = None /\ pc' = "measured" /\ UNCHANGED err
  /\ UNCHANGED <<text, unknown, correction, tokens, replacements, corrected_spell,
                 spell_issues, grammar_issues, issues, recs>>
  /\ UNCHANGED <<variant, mode, duration>>

\* the orders in which a set can be iterated
Orderings(S) ==
  {f \in [1..Cardinality(S) -> S] : \A i, j \in DOMAIN f : f[i] = f[j] => i = j}

\* app2.py lines 44-49: one issue for each misspelt word
SpellingIssueApp2(word) ==
  [Type |-> "Spelling", Original |-> word, Suggestion |-> spell_correction(word)]

\* what TextBlob(t).correct() may return: the text, or a changed text
BlobCorrect(t) == {t, Lower(t)}

\* app2.py lines 38-66 (called at line 194)
AnalyzeText ==
  /\ variant = "app2" /\ pc = "transcribed"
  /\ LET misspelled == spell_unknown({Lower(w) : w \in FindWords(text)}) IN
       \E order \in Orderings(misspelled) : \E corrected_text \in BlobCorrect(text) :
         /\ spell_issues' = [i \in 1..Len(order) |-> SpellingIssueApp2(order[i])]
         /\ grammar_issues' =
              IF corrected_text # text
                THEN <<[Type |-> "Grammar", Original |-> text,
                        Suggestion |-> corrected_text]>>
                ELSE <<>>
         /\ issues' = spell_issues' \o grammar_issues'
         /\ corrected_spell' = corrected_text
  /\ pc' = "analyzed"
  /\ UNCHANGED <<text, unknown, correction, tokens, replacements, recs, err>>
  /\ UNCHANGED <<variant, mode, duration, word_count, wpm>>

\* app2.py lines 206-208
SpeakingMetricsApp2 ==
  /\ variant = "app2" /\ pc = "analyzed"
  /\ LET wc == CountSplit(text)
         duration_est == Div(Rat(wc), <<5, 2>>)
         divisor == Div(duration_est, Rat(60))
     IN  /\ word_count' = wc
         /\ IF IsZero(divisor)
              THEN err' = "ZeroDivisionError" /\ pc' = "failed" /\ UNCHANGED wpm
              ELSE wpm' = Div(Rat(wc), divisor) /\ pc' = "estimated" /\ UNCHANGED err
  /\ UNCHANGED <<text, unknown, correction, tokens, replacements, corrected_spell,
                 spell_issues, grammar_issues, issues, recs>>
  /\ UNCHANGED <<variant, mode, duration>>

\* app2.py lines 214-218
RecommendationsApp2 ==
  /\ variant = "app2" /\ pc = "estimated"
  /\ recs' = <<"Slow down slightly and pause between sentences.",
                "Practice pronunciation of difficult words.",
                "Record yourself daily for fluency improvement.">>
  /\ pc' = "done"
  /\ UNCHANGED <<text, unknown, correction, tokens, replacements, corrected_spell,
                 spell_issues, grammar_issues, issues, err>>
  /\ UNCHANGED <<variant, mode, duration, word_count, wpm>>

NextSpeaking ==
  \/ SafeSpellCorrect \/ BasicGrammarChecks \/ MergeIssues \/ SpeakingMetrics
  \/ Recommendations
  \/ AnalyzeText \/ SpeakingMetricsApp2 \/ RecommendationsApp2

\* the recordings: at most MaxSegments segments of SegmentVocab, with a
\* duration that is unknown or a number of seconds up to MaxDuration
MaxSegments == 3
MaxDuration == 3
SegmentVocab == {
  <<>>,
  <<" ">>,
  <<" ", "h", "e", "l", "o">>,
  <<" ", "O", "m", "a", "n", ".">>,
  <<"e", "v", "r", "y", " ", "d", "a", "y", " ">> }
SegmentLists == UNION {[1..n -> SegmentVocab] : n \in 0..MaxSegments}
Durations == {None} \cup {<<d>> : d \in 0..MaxDuration}

InitSpeaking ==
  \E v \in {"app", "app2"} : \E segs \in SegmentLists : \E d \in Durations :
    LET t == Transcript(v, segs)
        cand == {Lower(w) : w \in FindWords(t)} \cap NonWords
    IN  \E o \in [cand -> {0, 4}] :
          /\ InitEvaluation(t, cand, o, IF v = "app" THEN "input" ELSE "transcribed")
          /\ variant = v
          /\ mode = "speaking"
          /\ duration = d
          /\ word_count = 0
          /\ wpm = None

SpecSpeaking == InitSpeaking /\ [][NextSpeaking]_vars

---------------------------------------------------------------------------
(* Properties.                                                             *)

Spelled == pc # "input"

\* the word tokens of the input, as (surface, start, end)
WordTokensOf(t) ==
  {tk \in SeqToSet(tokenize_with_positions(t)) : IsWordToken(tk[1])}

\* how far the splices before offset p have moved the text that follows them
RECURSIVE ShiftBefore(_, _)
ShiftBefore(rs, p) ==
  IF rs = <<>> THEN 0
  ELSE (IF Head(rs)[2] <= p THEN Len(Head(rs)[3]) - (Head(rs)[2] - Head(rs)[1]) ELSE 0)
       + ShiftBefore(Tail(rs), p)

\* token tk of the input was neither replaced nor flagged, and its characters
\* stand unchanged in the corrected text
LeftAlone(tk) ==
  /\ \A i \in 1..Len(replacements) :
       replacements[i][2] <= tk[2] \/ replacements[i][1] >= tk[3]
  /\ \A i \in 1..Len(spell_issues) : spell_issues[i].Original # tk[1]
  /\ LET at == tk[2] + ShiftBefore(replacements, tk[2])
     IN  Slice(corrected_spell, at, at + Len(tk[1])) = tk[1]

\* the dictionary does not know the word of tk and suggests another word
FlaggedWithSuggestion(tk) ==
  /\ Lower(tk[1]) \in unknown
  /\ correction[Lower(tk[1])] # None
  /\ correction[Lower(tk[1])] # Lower(tk[1])

\* the three shapes of the proper-noun heuristic, as the claim states them
C1_Shape(tok) ==
  \/ /\ Len(tok) <= 6
     /\ \A i \in 1..Len(tok) : tok[i] \notin AsciiLower
     /\ \E i \in 1..Len(tok) : tok[i] \in AsciiUpper
  \/ tok[1] \in AsciiUpper
  \/ \E i \in 1..Len(tok) : tok[i] = "@"

\* C1: after safe_spell_correct, every word token of the input that is fully
\* upper-case with at most 6 characters, or starts with an upper-case
\* character, or contains "@", is left alone: no replacement covers it, no
\* Spelling issue has it as Original, and its characters stand unchanged in
\* the corrected text, whatever the dictionary says about it.
C1_ProperNounGuard ==
  Spelled => \A tk \in WordTokensOf(text) : C1_Shape(tk[1]) => LeftAlone(tk)

\* a capitalised token of three characters or more that the dictionary does
\* not know and would correct, standing after a token that was replaced by a
\* word of another length
C1_Witness ==
  /\ pc = "spelled"
  /\ \E tk \in WordTokensOf(text) :
       /\ C1_Shape(tk[1])
       /\ Len(tk[1]) >= 3
       /\ FlaggedWithSuggestion(tk)
       /\ ShiftBefore(replacements, tk[2]) # 0

\* C2: after safe_spell_correct, every word token of length 1 or 2 is left
\* alone, in any casing and whatever the dictionary says about it; every
\* recorded replacement spans at least 3 characters and every Spelling issue
\* has an Original of at least 3 characters.
C2_ShortWordGuard ==
  Spelled =>
    /\ \A tk \in WordTokensOf(text) : Len(tk[1]) <= 2 => LeftAlone(tk)
    /\ \A i \in 1..Len(replacements) : replacements[i][2] - replacements[i][1] >= 3
    /\ \A i \in 1..Len(spell_issues) :
         spell_issues[i].Type = "Spelling" => Len(spell_issues[i].Original) >= 3

\* a lower-case token of two characters that the dictionary does not know and
\* would correct, standing after a token that was replaced by a word of
\* another length
C2_Witness ==
  /\ pc = "spelled"
  /\ \E tk \in WordTokensOf(text) :
       /\ Len(tk[1]) = 2
       /\ tk[1][1] \in AsciiLower
       /\ FlaggedWithSuggestion(tk)
       /\ ShiftBefore(replacements, tk[2]) # 0

\* C10: for every text T the tokens (surface, start, end) satisfy
\* 0 <= start < end <= len(T) and T[start:end] = surface, consecutive tokens
\* satisfy end_i <= start_(i+1), and the empty text has no tokens.
C10_TokenizerWellFormed ==
  LET toks == tokenize_with_positions(text)
  IN  /\ \A i \in 1..Len(toks) :
           /\ 0 <= toks[i][2]
           /\ toks[i][2] < toks[i][3]
           /\ toks[i][3] <= Len(text)
           /\ SubSeq(text, toks[i][2] + 1, toks[i][3]) = toks[i][1]
      /\ \A i \in 1..(Len(toks) - 1) : toks[i][3] <= toks[i + 1][2]
      /\ text = <<>> => toks = <<>>
      /\ Spelled => tokens = toks

\* a text of two tokens or more with a character between them that is in no
\* token, after the spelling pass has tokenized it
C10_Witness ==
  /\ pc = "spelled"
  /\ Len(tokens) >= 2
  /\ \E i \in 1..(Len(tokens) - 1) : tokens[i][3] < tokens[i + 1][2]

\* the reference result: the original walked left to right from offset p,
\* each replaced span giving way to its suggestion, every other character copied
RECURSIVE C3_Walk(_, _, _)
C3_Walk(t, rs, p) ==
  IF p >= Len(t) THEN <<>>
  ELSE IF \E i \in 1..Len(rs) : rs[i][1] = p
    THEN LET r == rs[CHOOSE i \in 1..Len(rs) : rs[i][1] = p]
         IN  r[3] \o C3_Walk(t, rs, r[2])
    ELSE <<t[p + 1]>> \o C3_Walk(t, rs, p + 1)

\* C3: the replacements recorded by safe_spell_correct are spans of tokens of
\* the original text, pairwise non-overlapping, spliced in descending start
\* order, and the corrected text equals the left-to-right reference walk of
\* the original, also when suggestions differ in length from their spans and
\* when several tokens are replaced.
C3_ReplacementApplication ==
  Spelled =>
    /\ \A i \in 1..Len(replacements) :
         <<Slice(text, replacements[i][1], replacements[i][2]),
           replacements[i][1], replacements[i][2]>> \in WordTokensOf(text)
    /\ \A i, j \in 1..Len(replacements) :
         i # j => \/ replacements[i][2] <= replacements[j][1]
                  \/ replacements[j][2] <= replacements[i][1]
    /\ LET order == ApplicationOrder(replacements)
       IN  /\ Len(order) = Len(replacements)
           /\ \A i \in 1..(Len(order) - 1) : order[i][1] > order[i + 1][1]
    /\ corrected_spell = C3_Walk(text, replacements, 0)

\* two replacements or more in one call, one with a suggestion shorter than
\* its span and one with a suggestion longer than its span
C3_Witness ==
  /\ pc = "spelled"
  /\ Len(replacements) >= 2
  /\ \E i \in 1..Len(replacements) :
       Len(replacements[i][3]) < replacements[i][2] - replacements[i][1]
  /\ \E i \in 1..Len(replacements) :
       Len(replacements[i][3]) > replacements[i][2] - replacements[i][1]

\* token tk lies in an email-like string: the run of non-space characters
\* around it holds an "@"
C4_InEmail(tk) ==
  \E p \in 0..(Len(text) - 1) :
    /\ text[p + 1] = "@"
    /\ \A q \in 0..(Len(text) - 1) :
         (/\ q >= (IF p < tk[2] THEN p ELSE tk[2])
          /\ q <= (IF p < tk[2] THEN tk[2] ELSE p)) => text[q + 1] \notin SpaceChars

\* C4: after safe_spell_correct every word token that is part of an
\* email-like string (the characters around an "@") is left alone: its
\* characters stand unchanged in the corrected text and no Spelling issue is
\* emitted for it, also when the dictionary does not know it and suggests
\* another word.
C4_EmailPreserved ==
  Spelled => \A tk \in WordTokensOf(text) : C4_InEmail(tk) => LeftAlone(tk)

AllSpace(t) == \A i \in 1..Len(t) : t[i] \in SpaceChars

\* C6: no evaluation reaches an IndexError (joined[0] and joined[-1] are
\* evaluated only when joined is not empty); for the empty text and every
\* text of white space only, safe_spell_correct returns the text unchanged
\* with no issues, and basic_grammar_checks returns no issues.
C6_TotalOnBlank ==
  /\ err = "none"
  /\ pc # "failed"
  /\ AllSpace(text) =>
       /\ Spelled => /\ corrected_spell = text
                     /\ spell_issues = <<>>
                     /\ replacements = <<>>
       /\ pc \in {"checked", "merged", "done"} => grammar_issues = <<>>

\* a text of spaces, tabs and newlines, after both passes
C6_Witness ==
  /\ pc = "checked"
  /\ AllSpace(text)
  /\ \E i, j, k \in 1..Len(text) : text[i] = " " /\ text[j] = "\t" /\ text[k] = "\n"

Checked == pc \in {"checked", "merged", "done"}

Merged == pc \in {"merged", "done"}

\* (Original, Suggestion) of the issues of type ty in lst, in order
C5_Pairs(lst, ty) ==
  LET HasType(g) == g.Type = ty
      sel == SelectSeq(lst, HasType)
  IN  [i \in 1..Len(sel) |-> <<sel[i].Original, sel[i].Suggestion>>]

\* the input "evry contry need educaton" with the dictionary that does not
\* know evry, contry, educaton and suggests every, country, education
C5_Example ==
  /\ text = <<"e","v","r","y"," ","c","o","n","t","r","y"," ","n","e","e","d"," ","e","d","u","c","a","t","o","n">>
  /\ unknown = {<<"e","v","r","y">>,
                <<"c","o","n","t","r","y">>,
                <<"e","d","u","c","a","t","o","n">>}
  /\ correction[<<"e","v","r","y">>] = <<"e","v","e","r","y">>
  /\ correction[<<"c","o","n","t","r","y">>] = <<"c","o","u","n","t","r","y">>
  /\ correction[<<"e","d","u","c","a","t","o","n">>] = <<"e","d","u","c","a","t","i","o","n">>

\* C5 as stated: for the example, the merged list holds exactly one Spelling
\* issue, educaton -> education, and Grammar issues evry -> every and
\* contry -> country.
C5_OneSpellingIssue ==
  (C5_Example /\ Merged) =>
    /\ C5_Pairs(issues, "Spelling") =
         << <<<<"e","d","u","c","a","t","o","n">>, <<"e","d","u","c","a","t","i","o","n">>>> >>
    /\ <<<<"e","v","r","y">>, <<"e","v","e","r","y">>>> \in SeqToSet(C5_Pairs(issues, "Grammar"))
    /\ <<<<"c","o","n","t","r","y">>, <<"c","o","u","n","t","r","y">>>> \in SeqToSet(C5_Pairs(issues, "Grammar"))

\* C5 (amended): for the example, the spelling pass corrects all three
\* non-words, so the merged list holds exactly three Spelling issues,
\* evry -> every, contry -> country, educaton -> education, in that order; the
\* grammar pass reads "every country need education" and emits no issue for
\* the table patterns evry and contry: its two issues are the
\* missing-ending-punctuation and the capital-letter ones.
C5_ThreeSpellingIssues ==
  (C5_Example /\ Merged) =>
    /\ C5_Pairs(issues, "Spelling") =
         << <<<<"e","v","r","y">>, <<"e","v","e","r","y">>>>,
            <<<<"c","o","n","t","r","y">>, <<"c","o","u","n","t","r","y">>>>,
            <<<<"e","d","u","c","a","t","o","n">>, <<"e","d","u","c","a","t","i","o","n">>>> >>
    /\ corrected_spell = <<"e","v","e","r","y"," ","c","o","u","n","t","r","y"," ","n","e","e","d"," ","e","d","u","c","a","t","i","o","n">>
    /\ C5_Pairs(issues, "Grammar") =
         << <<<<"u","n","t","r","y"," ","n","e","e","d"," ","e","d","u","c","a","t","i","o","n">>,
              <<"e","v","e","r","y"," ","c","o","u","n","t","r","y"," ","n","e","e","d"," ","e","d","u","c","a","t","i","o","n",".">>>>,
            <<<<"e","v","e","r","y"," ","c","o","u","n","t","r","y"," ","n","e","e","d"," ","e">>,
              <<"E","v","e","r","y"," ","c","o","u","n","t","r","y"," ","n","e","e","d"," ","e","d","u","c","a","t","i","o","n">>>> >>

\* the example, evaluated up to the merged issue list
C5_Witness == C5_Example /\ pc = "merged"

C7_PunctuationMessage == <<"Sentence may be missing ending punctuation.">>

C7_CapitalMessage == <<"Start sentences with a capital letter.">>

\* the last / first 20 characters of j
C7_Last20(j) ==
  LET n == IF Len(j) < 20 THEN Len(j) ELSE 20
  IN  [i \in 1..n |-> j[Len(j) - n + i]]

C7_First20(j) ==
  LET n == IF Len(j) < 20 THEN Len(j) ELSE 20
  IN  [i \in 1..n |-> j[i]]

\* the punctuation and capital-letter issues the claim expects for j
C7_Expected(j) ==
  (IF j[Len(j)] \notin {".", "!", "?"}
     THEN <<[Type |-> "Grammar", Original |-> C7_Last20(j),
             Suggestion |-> j \o <<".">>, Message |-> C7_PunctuationMessage]>>
     ELSE <<>>)
  \o
  (IF j[1] \in LowerChars
     THEN <<[Type |-> "Grammar", Original |-> C7_First20(j),
             Suggestion |-> [i \in 1..Len(j) |-> IF i = 1 THEN UpperChar(j[1]) ELSE j[i]],
             Message |-> C7_CapitalMessage]>>
     ELSE <<>>)

\* no table pattern and no location rule applies to the lower-cased text jl
C7_NoOtherRule(jl) ==
  /\ \A k \in 1..Len(PatternTable) : ~Search(PatternTable[k][1], jl)
  /\ ~Search(<<"l","o","c","a","t","e","d"," ","i","n"," ","j","o","r","d","a","n">>, jl)

\* C7: when the joined text is not empty, basic_grammar_checks emits the
\* missing-ending-punctuation issue (last 20 characters, joined + ".") iff the
\* last character is none of . ! ?, and the capital-letter issue (first 20
\* characters, first character upper-cased) iff the first character is
\* lower-case, independently, the punctuation issue first; they are the first
\* issues of the result, and the whole result when no other rule applies.
C7_PunctuationAndCapital ==
  LET j == Joined(GrammarInput)
      e == C7_Expected(j)
  IN  (Checked /\ j # <<>>) =>
        /\ Len(grammar_issues) >= Len(e)
        /\ SubSeq(grammar_issues, 1, Len(e)) = e
        /\ \A i \in (Len(e) + 1)..Len(grammar_issues) :
             grammar_issues[i].Message \notin {C7_PunctuationMessage, C7_CapitalMessage}
        /\ C7_NoOtherRule(Lower(j)) => grammar_issues = e

\* a text of more than 20 characters with no ending punctuation and a
\* lower-case first character that no other rule applies to: both issues
C7_Witness ==
  /\ pc = "checked"
  /\ Len(Joined(GrammarInput)) > 20
  /\ Len(grammar_issues) = 2
  /\ grammar_issues[1].Message = C7_PunctuationMessage
  /\ grammar_issues[2].Message = C7_CapitalMessage

\* the five table patterns and their fixed replacements, as the claim lists them
C8_Table == <<
  <<<<"o","m","a","n"," ","a","r","e">>, <<"O","m","a","n"," ","i","s">>>>,
  <<<<"t","o","d","a","y"," ","c","l","a","s","s"," ","i","s">>, <<"T","o","d","a","y","'","s"," ","c","l","a","s","s"," ","i","s">>>>,
  <<<<"i"," ","w","n","a","t">>, <<"I"," ","w","a","n","t">>>>,
  <<<<"e","v","r","y">>, <<"e","v","e","r","y">>>>,
  <<<<"c","o","n","t","r","y">>, <<"c","o","u","n","t","r","y">>>> >>

\* (Original, Suggestion) the claim expects from rows k.. of the table, in order
RECURSIVE C8_Expected(_, _)
C8_Expected(k, jl) ==
  IF k > Len(C8_Table) THEN <<>>
  ELSE (IF Search(C8_Table[k][1], jl) THEN <<C8_Table[k]>> ELSE <<>>)
       \o C8_Expected(k + 1, jl)

\* the issues of the pattern table: those that are neither the punctuation,
\* the capital-letter nor the location issue
C8_TableIssues ==
  LET FromTable(g) ==
        g.Message \notin {C7_PunctuationMessage, C7_CapitalMessage,
                          <<"Factual geography note: Oman is not located in Jordan.">>}
      sel == SelectSeq(grammar_issues, FromTable)
  IN  [i \in 1..Len(sel) |-> <<sel[i].Original, sel[i].Suggestion>>]

\* C8: each of the five table patterns emits exactly one Grammar issue when it
\* matches in the lower-cased joined text, however often, and none when it
\* does not; its Original is the matched text and its Suggestion the table's
\* replacement; the issues come in table order; one call returns at most 8
\* issues, all of type Grammar.
C8_PatternTable ==
  Checked =>
    /\ C8_TableIssues = C8_Expected(1, Lower(Joined(GrammarInput)))
    /\ Len(grammar_issues) <= 8
    /\ \A i \in 1..Len(grammar_issues) : grammar_issues[i].Type = "Grammar"

\* a text in which a table pattern occurs twice or more, after the grammar pass
C8_Witness ==
  /\ pc = "checked"
  /\ \E k \in 1..Len(C8_Table) :
       Cardinality(MatchOffsets(C8_Table[k][1], Lower(Joined(GrammarInput)))) >= 2

\* the recommendations the claim expects for the issue list lst
C9_Expected(lst) ==
  (IF \E i \in 1..Len(lst) : lst[i].Type = "Spelling" THEN <<SpellingTip>> ELSE <<>>)
  \o (IF \E i \in 1..Len(lst) : lst[i].Type = "Grammar" THEN <<GrammarTip>> ELSE <<>>)
  \o <<RewriteTip, ReadAloudTip>>

\* C9: the merged list is the spelling issues followed by the grammar issues,
\* each in its own order; the recommendations are the spelling tip iff there
\* is a Spelling issue, then the grammar tip iff there is a Grammar issue, then
\* the two generic tips; between 2 and 4 entries.
C9_MergeAndRecommend ==
  /\ Merged =>
       /\ Len(issues) = Len(spell_issues) + Len(grammar_issues)
       /\ \A i \in 1..Len(spell_issues) : issues[i] = spell_issues[i]
       /\ \A i \in 1..Len(grammar_issues) :
            issues[Len(spell_issues) + i] = grammar_issues[i]
  /\ pc = "done" =>
       /\ recs = C9_Expected(issues)
       /\ Len(recs) >= 2
       /\ Len(recs) <= 4

\* an evaluation with issues of both types and all four recommendations
C9_Witness ==
  /\ pc = "done"
  /\ spell_issues # <<>>
  /\ grammar_issues # <<>>
  /\ Len(recs) = 4

\* offset p of t lies in the span of one of the tokens toks
C11_Covered(toks, p) == \E i \in 1..Len(toks) : toks[i][2] <= p /\ p < toks[i][3]

\* C11: for every text the tokens cover every character that is not white
\* space (every character in no token span is a white-space character), and
\* every word token is a whole alphabetic run: no letter stands directly
\* before or after it; also with underscores, non-ASCII letters and letters
\* next to digits.
C11_TokenizerCoverage ==
  LET toks == tokenize_with_positions(text)
  IN  /\ \A p \in 0..(Len(text) - 1) :
           ~C11_Covered(toks, p) => text[p + 1] \in SpaceChars
      /\ \A i \in 1..Len(toks) :
           IsWordToken(toks[i][1]) =>
             /\ toks[i][2] > 0 => text[toks[i][2]] \notin LowerChars \cup UpperChars
             /\ toks[i][3] < Len(text) =>
                  text[toks[i][3] + 1] \notin LowerChars \cup UpperChars

\* the speaking metrics have been computed
C12_Measured == mode = "speaking" /\ pc \in {"measured", "estimated", "done"}

\* the duration, in seconds, that the variant divides by: info.duration in
\* app.py (None when unknown), word_count / 2.5 in app2.py
C12_DurationSeconds ==
  IF variant = "app"
    THEN IF duration = None THEN None ELSE Rat(duration[1])
    ELSE Div(Rat(word_count), <<5, 2>>)

\* the metrics of app.py alone never reach a division by zero
C12_AppNeverDividesByZero == variant = "app" => err # "ZeroDivisionError"

\* once computed, the value is omitted for a zero or unknown duration and is
\* (wordCount / durationSeconds) * 60 otherwise
C12_Value ==
  C12_Measured =>
    IF C12_DurationSeconds = None \/ IsZero(C12_DurationSeconds)
      THEN wpm = None
      ELSE /\ wpm # None
           /\ RatEq(wpm, Mul(Div(Rat(word_count), C12_DurationSeconds), Rat(60)))

\* C12: in app.py and in app2.py, for every transcript (an empty one
\* included) and every duration (zero and unknown included), the speaking
\* metrics never end in a division by zero; the words-per-minute value is
\* omitted when the duration divided by is zero or unknown, and is
\* (wordCount / durationSeconds) * 60 otherwise.
C12_WpmNeverDividesByZero ==
  /\ err # "ZeroDivisionError"
  /\ C12_Value

\* app2.py on a recording without a word
C12_EmptyTranscriptApp2 ==
  variant = "app2" /\ pc = "failed" /\ CountSplit(text) = 0

=============================================================================
